---- MODULE Spec2Model ----
(***************************************************************************)
(* State-machine model of the Facebook interaction bot:                    *)
(*   src/facebook_bot_selenium.py  (SocialMediaBot, FacebookBotSelenium,   *)
(*                                  run_facebook_bot)                      *)
(*   src/facebook_cli.py           (run_bot, interact_with_post)           *)
(*   src/run_facebook_bot.py       (main)                                  *)
(* The browser, the page and the file system are the environment: every    *)
(* driver command draws its outcome (a value, a list of elements, or an    *)
(* exception) from a small set.                                            *)
(***************************************************************************)
EXTENDS Integers, Sequences, FiniteSets, TLC

\* ------------------------------------------------------------------ bounds
\* Largest number of elements one find_elements query returns in the model.
MaxElems == 2

\* ------------------------------------------------------- program constants
\* Lengths of the locator lists of like_post_in_current_view.
LikePathsMobile == 6
LikePathsDesktop == 7
\* Lengths of the comment-input locator lists of comment_post_in_current_view.
MobileTextareas == 5
CommentSelectors == 5
\* Lengths of the locator lists of share_post.
ShareSelectorsMobile == 4
ShareSelectorsDesktop == 3
ShareNowSelectors == 3

\* ---------------------------------------------------------------- strings
\* A URL is the sequence of the parts url.split('/') yields.  Substring tests
\* of the code ("x" in url) are decided part by part through Needles.
Needles(part) ==
  CASE part = "www.facebook.com" -> {"facebook.com"}
    [] part = "m.facebook.com"   -> {"facebook.com", "m.facebook.com"}
    [] part = "fb.com"           -> {"fb.com"}
    [] part = "pfbidA"           -> {"pfbidA"}
    [] part = "pfbidA?ref=1"     -> {"pfbidA", "pfbidA?ref=1"}
    [] part = "story?id=pfbidA"  -> {"pfbidA"}
    [] OTHER                     -> {}

\* part.startswith('pfbid')
StartsWithPfbid(part) == part \in {"pfbidA", "pfbidA?ref=1"}

\* needle in url
Contains(url, needle) == \E i \in 1..Len(url) : needle \in Needles(url[i])

\* "facebook.com/" in url : a part ending in facebook.com followed by a '/'
ContainsFacebookSlash(url) ==
  \E i \in 1..(Len(url) - 1) : url[i] \in {"www.facebook.com", "m.facebook.com"}

\* the loop `for part in url_parts: if part.startswith('pfbid'): post_id = part; break`
\* ("" stands for None)
RECURSIVE FirstPfbid(_, _)
FirstPfbid(url, i) ==
  IF i > Len(url) THEN ""
  ELSE IF StartsWithPfbid(url[i]) THEN url[i] ELSE FirstPfbid(url, i + 1)

ExtractPostId(url) == FirstPfbid(url, 1)

\* is_mobile = "m.facebook.com" in self.driver.current_url
IsMobile(url) == Contains(url, "m.facebook.com")

\* the platform-domain test of facebook_cli.py
IsFacebookLink(url) == Contains(url, "facebook.com") \/ Contains(url, "fb.com")

UrlDesktopPost == <<"https:", "", "www.facebook.com", "user", "posts", "pfbidA">>
UrlMobilePost  == <<"https:", "", "m.facebook.com", "story", "pfbidA?ref=1">>
UrlSharePost   == <<"https:", "", "www.facebook.com", "share", "p", "123">>
UrlForeign     == <<"https:", "", "example.com", "pfbidA">>
UrlHome        == <<"https:", "", "www.facebook.com", "">>
UrlMobileHome  == <<"https:", "", "m.facebook.com", "home.php">>
UrlLoginPage   == <<"https:", "", "www.facebook.com", "login", "?attempt=1">>
UrlError       == <<"chrome-error:", "", "chromewebdata", "">>
UrlBlank       == <<"data:,">>

TargetUrls == {UrlDesktopPost, UrlMobilePost, UrlSharePost, UrlForeign}

\* The post URLs run_facebook_bot is called with directly; a URL outside the
\* platform reaches it through the launcher, which passes on whatever it was
\* given. A direct call of interact_with_post is followed for one of them.
DirectTargetUrls == {UrlDesktopPost, UrlMobilePost, UrlSharePost}
InteractTargetUrls == {UrlDesktopPost}

\* Where the browser may be after driver.get(url): the page asked for, a
\* redirect to a home feed, or the browser's error page.
Landings(url) == {url, UrlHome, UrlMobileHome, UrlError}

\* Where the browser may be after the login form was submitted.
LoginLandings == {UrlHome, UrlLoginPage, UrlError}

\* --------------------------------------------------------- configuration
\* The content of config.json: readable or not, and the accounts it lists;
\* "" is an absent (or empty) field.
ConfigOk == [readable |-> TRUE,
             accounts |-> << [username |-> "alice", password |-> "pwA"],
                             [username |-> "bob", password |-> "pwB"] >>]

Configs ==
  { ConfigOk,
    [readable |-> FALSE, accounts |-> << >>],
    [readable |-> TRUE,  accounts |-> << >>],
    [readable |-> TRUE,  accounts |-> << [username |-> "", password |-> "pwA"] >>],
    [readable |-> TRUE,  accounts |-> << [username |-> "alice", password |-> ""] >>] }

NoCredentials == [ok |-> FALSE, username |-> "", password |-> ""]

\* a mis-written loader that falls back to built-in credentials
LoadConfigWithDefaults(c) ==
  IF c.readable /\ Len(c.accounts) > 0
     /\ c.accounts[1].username # "" /\ c.accounts[1].password # ""
  THEN [ok |-> TRUE, username |-> c.accounts[1].username,
        password |-> c.accounts[1].password]
  ELSE [ok |-> TRUE, username |-> "default", password |-> "default"]

\* the try-block of run_bot and of the launcher's main
LoadConfig(c) ==
  IF ~c.readable THEN NoCredentials
  ELSE IF Len(c.accounts) = 0 THEN NoCredentials
  ELSE LET account == c.accounts[1] IN
       IF account.username = "" \/ account.password = "" THEN NoCredentials
       ELSE [ok |-> TRUE, username |-> account.username,
             password |-> account.password]

\* ------------------------------------------------------ comment templates
\* A text is a sequence of character codes.  The content of comments.json maps
\* categories to lists of texts.
TextAscii    == <<77, 117, 121>>
TextAscii2   == <<79, 75>>
TextAccent   == <<161, 79, 75, 33>>
TextFallback == <<77, 33>>

\* the contents a bot is built with directly; the command-line entry points
\* run with a third text in the general category
TemplateSets ==
  { [general |-> <<TextAccent, TextAscii>>],
    [general |-> <<TextAccent>>],
    [other   |-> <<TextAscii>>] }

IsAsciiText(c) == \A k \in 1..Len(c) : c[k] <= 127

\* a choice among all the general templates, filtered or not
TextCommentsUnfiltered(tpl) == { tpl.general[k] : k \in 1..Len(tpl.general) }

\* text_comments = [c for c in templates["general"] if not any(ord(ch) > 127 ...)]
TextComments(tpl) ==
  { tpl.general[k] : k \in { j \in 1..Len(tpl.general) : IsAsciiText(tpl.general[j]) } }

\* the texts `random.choice` / the fallback may yield when no comment is given
DefaultComments(tpl) ==
  IF TextComments(tpl) # {} THEN TextComments(tpl) ELSE {TextFallback}

\* self.comment_templates["general"] raises KeyError without that category
HasGeneral(tpl) == "general" \in DOMAIN tpl


\* ------------------------------------------------------------------ state
VARIABLES
  entry,       \* how the program was started: "cli", "launcher", "rfb", "iwp",
               \* "batch"
  cfg,         \* content of config.json
  target,      \* post_url
  req,         \* [like, comment, share |-> BOOLEAN], the request flags
  templates,   \* self.comment_templates
  pc,          \* position in the program
  creds,       \* the credentials the bot was built with
  driver,      \* self.driver: "none", "live", "closed"
  connected,   \* self.connected
  curUrl,      \* driver.current_url
  loginCalls,  \* the login() calls made so far: [ret, why]
  navs,        \* the driver.get calls made so far, by origin
  step,        \* index into ActionOrder of the action interact_with_post is at
  success,     \* `success` of interact_with_post
  outcome,     \* what each action method returned: "none", "true", "false", "raised"
  active,      \* the action method that is executing, "none" between actions
  ci,          \* index of the locator candidate the active loop is at
  chosen,      \* the element the action succeeded on (NoChoice if none): its
               \* candidate, its index in the query's result, what it is,
               \* whether a visible+enabled element precedes it in that result,
               \* where on the page it lies, how the text typed into it was
               \* submitted (a submit control clicked, Enter sent), and the
               \* techniques that wrote the text into it
  passedBefore,\* an earlier candidate of this loop had a visible+enabled element
  skippedPass, \* ... and none of its elements was acted on
  fault,       \* the last candidate's query or visibility check raised
  shareButton, \* share_button of share_post is not None
  shareClicked, \* a click on a share control returned without an exception
  commentText, \* `comment` of comment_post_in_current_view, << >> before it is set
  ret,         \* what the active method returns: "none", "true", "false", "raised"
  waits,       \* timed waits (self.wait.until) made so far for the locator list
               \* the active method is resolving
  clicks,      \* click or typing attempts made on the element the active locator
               \* loop acted on last
  held,        \* the executing method has the results of element queries (handles)
               \* in scope
  staleUse,    \* a handle was used after the page it came from was replaced
  original_url,\* `original_url` of interact_with_post, << >> before it is set; it
               \* is the post_url every action method is called with
  requested,   \* the URLs interact_with_post and share_post handed to driver.get
  post_found,  \* interact_with_post's local, "none" outside the span in which
               \* it is live (from find_specific_post to the first action)
  restyled,    \* the executing method (or the last find_specific_post) changed
               \* the style of an element it had located, without acting on it
  shots,       \* the screenshot captures the executing method (or the last
               \* find_specific_post) asked the driver for, by file-name prefix
  touched,     \* actions for which a click or typing was dispatched on the page
  opened,      \* comment-opening controls clicked by the comment-button loop
               \* that just ended (0, 1, or 2 for two or more); 0 once the
               \* loop over the comment inputs has started
  log,         \* the activity log: records [action, status]
  raised,      \* cause of an exception that left interact_with_post, "none" if none
  iwpRet,      \* what interact_with_post returned: "none", "true", "false"
  result,      \* what the entry point returned: "none", "true", "false", "raised"
  file,        \* batch mode: the file of targets, [exists, lines]
  bi,          \* batch mode: number of entries of `urls` the loop is through
  successful,  \* batch mode: `successful` of batch_process
  failed,      \* batch mode: `failed` of batch_process
  processed    \* batch mode: what was done for each entry of `urls` so far:
               \* [valid, started, ok, slept, exit]; exit is the path
               \* the run left by: "invalid", "config", "login", "true",
               \* "false", "raised"

inputs  == <<entry, cfg, target, req, templates>>
session == <<creds, driver, connected, curUrl, loginCalls, navs>>
orch    == <<step, success, outcome, raised, iwpRet, result>>
loopc   == <<active, ci, chosen, passedBefore, skippedPass, fault,
             shareButton, shareClicked, commentText, ret, waits, clicks, staleUse>>
loopv   == <<loopc, held, shots, restyled, post_found, opened>>
urls    == <<original_url, requested>>
batch   == <<file, bi, successful, failed, processed>>
vars    == <<inputs, batch, urls, pc, session, orch, loopv, touched, log>>

Actions == {"like", "comment", "share"}

\* an interact_with_post that comments before it likes
ActionOrderCommentFirst == <<"comment", "like", "share">>

\* the order in which interact_with_post runs the requested actions
ActionOrder == <<"like", "comment", "share">>

Flags == [like : BOOLEAN, comment : BOOLEAN, share : BOOLEAN]

\* like=True, comment=True, share=False: what run_bot and the launcher pass
DefaultFlags == [like |-> TRUE, comment |-> TRUE, share |-> FALSE]

DirectCredentials == [ok |-> TRUE, username |-> "alice", password |-> "pwA"]

B2S(b) == IF b THEN "true" ELSE "false"

\* no file of targets: the program was not started in batch mode
NoFile == [exists |-> FALSE, lines |-> << >>]

NoChoice == [cand |-> 0, elem |-> 0, kind |-> "none", earlier |-> FALSE,
             region |-> "none", submit |-> FALSE, submits |-> 0,
             enter |-> FALSE, injected |-> << >>]

Init ==
  /\ entry \in {"cli", "launcher", "rfb", "iwp"}
  /\ cfg \in (IF entry \in {"cli", "launcher"} THEN Configs ELSE {ConfigOk})
  /\ target \in (IF entry = "rfb" THEN DirectTargetUrls
                  ELSE IF entry = "iwp" THEN InteractTargetUrls
                  ELSE TargetUrls)
  /\ req \in (IF entry \in {"rfb", "iwp"} THEN Flags ELSE {DefaultFlags})
  /\ templates \in (IF entry \in {"rfb", "iwp"} THEN TemplateSets
                    ELSE {[general |-> <<TextAccent, TextAscii, TextAscii2>>]})
  /\ pc = "start"
  /\ creds = NoCredentials
  /\ driver = "none"
  /\ connected = FALSE
  /\ curUrl = UrlBlank
  /\ loginCalls = << >>
  /\ navs = << >>
  /\ step = 1
  /\ success = TRUE
  /\ outcome = [a \in Actions |-> "none"]
  /\ active = "none"
  /\ ci = 0
  /\ chosen = NoChoice
  /\ passedBefore = FALSE
  /\ skippedPass = FALSE
  /\ fault = FALSE
  /\ shareButton = FALSE
  /\ shareClicked = FALSE
  /\ commentText = << >>
  /\ ret = "none"
  /\ waits = 0
  /\ clicks = 0
  /\ held = FALSE
  /\ shots = {}
  /\ restyled = FALSE
  /\ post_found = "none"
  /\ opened = 0
  /\ original_url = << >>
  /\ requested = {}
  /\ staleUse = FALSE
  /\ touched = {}
  /\ log = << >>
  /\ raised = "none"
  /\ iwpRet = "none"
  /\ result = "none"
  /\ file = NoFile
  /\ bi = 0
  /\ successful = 0
  /\ failed = 0
  /\ processed = << >>

\* ------------------------------------------------------------------ login
\* What the environment does during one login(): the first step that goes
\* wrong, and the page the browser is on after the form was submitted.
LoginFaults == {"none", "setup", "get", "email", "pass", "button",
                "errbox", "approvals", "probe"}
LoginScenarios == [fault : LoginFaults, url : LoginLandings, consent : BOOLEAN]

\* the URL test of login(): "facebook.com/home" in u or "facebook.com/?sk=h_chr"
\* in u or "facebook.com/" in u
AuthenticatedShape(url) ==
  \/ \E i \in 1..(Len(url) - 1) :
        url[i] \in {"www.facebook.com", "m.facebook.com"}
        /\ url[i + 1] \in {"home", "home.php", "?sk=h_chr"}
  \/ ContainsFacebookSlash(url)

\* a login that reports success without recording it
ConnectedAfterLoginForgets(conn, ok) == conn

\* self.connected after login(): set to True on success, otherwise left alone
ConnectedAfterLogin(conn, ok) == conn \/ ok

\* a login that cannot go on without the consent dialog
ConsentRaisesWhenMissing(consent) == ~consent

\* try: wait for the consent button, click it / except: log -- a dialog that
\* does not show raises nothing to the code around it
ConsentRaises(consent) == FALSE

\* what login() did to the form, in order, when `wrong` is the first step that
\* went wrong: "email" and "pass" are the fields filled, "submit" the click on
\* the login button
FormSteps(wrong) ==
  IF wrong = "email" THEN << >>
  ELSE IF wrong = "pass" THEN <<"email">>
  ELSE IF wrong = "button" THEN <<"email", "pass">>
  ELSE <<"email", "pass", "submit">>

\* login(): what it returns, why, the driver and the page it leaves behind,
\* whether it navigated, and what it did to the form
login(scn, drv, url) ==
  IF drv = "none" /\ scn.fault = "setup"
  THEN [ret |-> FALSE, why |-> "setup", driver |-> "none", url |-> url,
        navigated |-> FALSE, form |-> << >>]
  ELSE LET d == IF drv = "none" THEN "live" ELSE drv IN
    IF d = "closed" \/ scn.fault = "get"
    THEN [ret |-> FALSE, why |-> "get", driver |-> d, url |-> url,
          navigated |-> FALSE, form |-> << >>]
    ELSE IF ConsentRaises(scn.consent)
    THEN [ret |-> FALSE, why |-> "consent", driver |-> d, url |-> UrlHome,
          navigated |-> TRUE, form |-> << >>]
    ELSE IF scn.fault \in {"email", "pass", "button"}
    THEN [ret |-> FALSE, why |-> scn.fault, driver |-> d, url |-> UrlHome,
          navigated |-> TRUE, form |-> FormSteps(scn.fault)]
    ELSE IF scn.fault \in {"errbox", "approvals", "probe"}
    THEN [ret |-> FALSE, why |-> scn.fault, driver |-> d, url |-> scn.url,
          navigated |-> TRUE, form |-> FormSteps(scn.fault)]
    ELSE IF AuthenticatedShape(scn.url)
    THEN [ret |-> TRUE, why |-> "ok", driver |-> d, url |-> scn.url,
          navigated |-> TRUE, form |-> FormSteps(scn.fault)]
    ELSE [ret |-> FALSE, why |-> "unverified", driver |-> d, url |-> scn.url,
          navigated |-> TRUE, form |-> FormSteps(scn.fault)]

\* the entry of loginCalls for one call
LoginCall(r) == [ret |-> r.ret, why |-> r.why, form |-> r.form]

NoLogin == [fault |-> "none", url |-> UrlHome, consent |-> TRUE]

\* the scenarios the guard `if not self.connected: if not self.login(): ...` draws
GuardScenarios == IF connected THEN {NoLogin} ELSE LoginScenarios

\* a guard that logs in again whatever the session flag says
EnsureSessionAgain(scn) ==
  LET r == login(scn, driver, curUrl) IN
    [called |-> TRUE, ret |-> r.ret, why |-> r.why, form |-> r.form,
     driver |-> r.driver, url |-> r.url,
     connected |-> ConnectedAfterLogin(connected, r.ret),
     navigated |-> r.navigated]

\* the guard at the head of interact_with_post and of every action method:
\* [called, ret, driver, url, connected]
EnsureSession(scn) ==
  IF connected
  THEN [called |-> FALSE, ret |-> TRUE, why |-> "ok", form |-> << >>,
        driver |-> driver,
        url |-> curUrl, connected |-> connected, navigated |-> FALSE]
  ELSE LET r == login(scn, driver, curUrl) IN
       [called |-> TRUE, ret |-> r.ret, why |-> r.why, form |-> r.form,
        driver |-> r.driver, url |-> r.url,
        connected |-> ConnectedAfterLogin(connected, r.ret),
        navigated |-> r.navigated]

\* the session variables after the guard
SessionAfter(g) ==
  /\ driver' = g.driver
  /\ curUrl' = g.url
  /\ connected' = g.connected
  /\ loginCalls' = IF g.called THEN Append(loginCalls, LoginCall(g)) ELSE loginCalls
  /\ navs' = IF g.navigated THEN Append(navs, "login") ELSE navs

\* a close() that leaves the browser running
LeftOpen(drv) == drv

\* close(): quit the browser if there is one
Closed(drv) == IF drv = "none" THEN "none" ELSE "closed"

\* a close() that also ends the session
ConnectedAfterCloseResets(conn) == FALSE

\* self.connected after close(): the method does not write it
ConnectedAfterClose(conn) == conn


\* a method whose element handles outlive its return
ReleasedNever(h) == h

\* the element handles of a method are locals: none is in scope after it returned
Released(h) == FALSE

\* ------------------------------------------------------------ entry points
LoopReset ==
  /\ active' = "none"
  /\ ci' = 0
  /\ chosen' = NoChoice
  /\ passedBefore' = FALSE
  /\ skippedPass' = FALSE
  /\ fault' = FALSE
  /\ shareButton' = FALSE
  /\ shareClicked' = FALSE
  /\ commentText' = << >>
  /\ ret' = "none"
  /\ waits' = 0
  /\ clicks' = 0
  /\ held' = Released(held)
  /\ shots' = {}
  /\ restyled' = FALSE
  /\ post_found' = "none"
  /\ opened' = 0
  /\ staleUse' = staleUse

\* facebook_cli.py interact: interact_with_post(args) and run_bot up to the
\* call of run_facebook_bot
cli_interact ==
  /\ pc = "start" /\ entry = "cli"
  /\ LET c == LoadConfig(cfg) IN
       IF ~IsFacebookLink(target) \/ ~c.ok
       THEN pc' = "done" /\ result' = "false" /\ creds' = creds
       ELSE pc' = "rfb" /\ result' = result /\ creds' = c
  /\ UNCHANGED <<inputs, batch, urls, driver, connected, curUrl, loginCalls, navs,
                 step, success, outcome, raised, iwpRet, loopv, touched, log>>

\* run_facebook_bot.py main up to the call of run_facebook_bot
launcher_main ==
  /\ pc = "start" /\ entry = "launcher"
  /\ LET c == LoadConfig(cfg) IN
       IF ~c.ok
       THEN pc' = "done" /\ result' = "false" /\ creds' = creds
       ELSE pc' = "rfb" /\ result' = result /\ creds' = c
  /\ UNCHANGED <<inputs, batch, urls, driver, connected, curUrl, loginCalls, navs,
                 step, success, outcome, raised, iwpRet, loopv, touched, log>>

\* a caller of run_facebook_bot(username, password, post_url, like, comment, share)
call_run_facebook_bot ==
  /\ pc = "start" /\ entry = "rfb"
  /\ pc' = "rfb" /\ creds' = DirectCredentials
  /\ UNCHANGED <<inputs, batch, urls, driver, connected, curUrl, loginCalls, navs, orch, loopv,
                 touched, log>>

\* a caller of interact_with_post on a freshly built FacebookBotSelenium
call_interact_with_post ==
  /\ pc = "start" /\ entry = "iwp"
  /\ pc' = "iwp" /\ creds' = DirectCredentials
  /\ UNCHANGED <<inputs, batch, urls, driver, connected, curUrl, loginCalls, navs, orch, loopv,
                 touched, log>>

\* a run that goes on after a failed login
LoginFailedIgnored(ok) == FALSE

\* `if not login_success:` of run_facebook_bot
LoginFailed(ok) == ~ok

\* run_facebook_bot: bot.login(), and the abort when it fails
run_facebook_bot ==
  /\ pc = "rfb"
  /\ \E scn \in LoginScenarios :
       LET r == login(scn, driver, curUrl) IN
         /\ loginCalls' = Append(loginCalls, LoginCall(r))
         /\ curUrl' = r.url
         /\ navs' = IF r.navigated THEN Append(navs, "login") ELSE navs
         /\ IF LoginFailed(r.ret)
            THEN /\ pc' = "done" /\ result' = "false"
                 /\ driver' = Closed(r.driver)
                 /\ connected' =
                      ConnectedAfterClose(ConnectedAfterLogin(connected, r.ret))
            ELSE /\ pc' = "iwp" /\ result' = result /\ driver' = r.driver
                 /\ connected' = ConnectedAfterLogin(connected, r.ret)
  /\ UNCHANGED <<inputs, batch, urls, creds, step, success, outcome, raised, iwpRet,
                 loopv, touched, log>>

\* ------------------------------------------------------ interact_with_post
\* an exception leaves interact_with_post: run_facebook_bot catches it, closes
\* the browser and returns False; a direct caller receives it
RaiseOut(cause) ==
  /\ raised' = cause
  /\ pc' = "done"
  /\ IF entry = "iwp"
     THEN result' = "raised" /\ UNCHANGED <<driver, connected>>
     ELSE /\ result' = "false" /\ driver' = Closed(driver)
          /\ connected' = ConnectedAfterClose(connected)

\* a run that turns a mobile URL into its desktop form
DesktopUrl(url) ==
  [i \in DOMAIN url |-> IF url[i] = "m.facebook.com" THEN "www.facebook.com"
                        ELSE url[i]]

\* original_url = post_url
OriginalUrl(url) == url

\* the guard at the head of interact_with_post
interact_with_post ==
  /\ pc = "iwp"
  /\ \E scn \in GuardScenarios :
       LET g == EnsureSession(scn) IN
         /\ SessionAfter(g)
         /\ IF g.ret
            THEN /\ pc' = "nav1" /\ iwpRet' = iwpRet
                 /\ original_url' = OriginalUrl(target)
            ELSE /\ pc' = "iwp_ret" /\ iwpRet' = "false"
                 /\ original_url' = original_url
  /\ success' = TRUE
  /\ requested' = requested
  /\ UNCHANGED <<inputs, batch, creds, step, outcome, raised, result, loopv,
                 touched, log>>

\* self.driver.get(original_url): the first navigation and the retry
iwp_navigate ==
  /\ pc \in {"nav1", "nav2"}
  /\ navs' = Append(navs, IF pc = "nav1" THEN "initial" ELSE "retry")
  /\ requested' = requested \cup {original_url}
  /\ original_url' = original_url
  /\ \E ok \in BOOLEAN, land \in Landings(original_url) :
       IF ok /\ driver = "live"
       THEN /\ curUrl' = land
            /\ pc' = IF pc = "nav1" THEN "find1" ELSE "find2"
            /\ UNCHANGED <<driver, connected, raised, result>>
       ELSE /\ curUrl' = curUrl
            /\ RaiseOut("navigation")
  /\ UNCHANGED <<inputs, batch, creds, loginCalls, step, success,
                 outcome, iwpRet, loopv, touched, log>>

\* a capture whose failure is not caught
CaptureRaisesOnFault(shotOk) == ~shotOk

\* try: self.driver.save_screenshot(path) / except: pass -- a capture that
\* fails (shotOk false) raises nothing to the code around it
CaptureRaises(shotOk) == FALSE

\* a retry that checks for drift again
AfterFindRechecks(p, found) == "drift"

\* a run that gives up when the post was not located
AfterFindAborts(p, found) ==
  IF ~found THEN "iwp_ret" ELSE IF p = "find1" THEN "drift" ELSE "dispatch"

\* where interact_with_post goes on after find_specific_post returned
\* post_found: a False only logs a warning
AfterFind(p, found) == IF p = "find1" THEN "drift" ELSE "dispatch"

\* the return value of find_specific_post
PostFound(how) == how # "none"

\* target_post.style.border = '3px solid red' and style.padding = '10px' on
\* the first post-shaped region, when the post was located by structure and
\* the script ran
Highlighted(how, styleOk) == how = "structure" /\ styleOk

\* find_specific_post: by the post id, else by the first post-shaped region
find_specific_post_shot(shotOk) ==
  /\ pc \in {"find1", "find2"}
  /\ IF CaptureRaises(shotOk)
     THEN /\ RaiseOut("capture")
          /\ shots' = {"initial_page"}
          /\ UNCHANGED <<held, restyled, post_found, opened>>
     ELSE /\ \E how \in {"id", "structure", "none"}, styleOk \in BOOLEAN :
               /\ how = "id" => ExtractPostId(original_url) # ""
               /\ how # "structure" => styleOk
               /\ held' = Released(PostFound(how))
               /\ restyled' = Highlighted(how, styleOk)
               /\ post_found' = B2S(PostFound(how))
               /\ opened' = opened
               /\ shots' = IF how = "structure"
                           THEN {"initial_page", "target_post"}
                           ELSE {"initial_page"}
               /\ pc' = AfterFind(pc, PostFound(how))
          /\ UNCHANGED <<driver, connected, raised, result>>
  /\ UNCHANGED <<inputs, batch, urls, creds, curUrl, loginCalls, navs,
                 step, success, outcome, iwpRet, loopc, touched, log>>

find_specific_post == \E shotOk \in BOOLEAN : find_specific_post_shot(shotOk)

\* `if post_id and post_id not in current_url:`
DriftDetected(url, current) ==
  ExtractPostId(url) # "" /\ ~Contains(current, ExtractPostId(url))

\* the redirect check of interact_with_post
iwp_drift_check ==
  /\ pc = "drift"
  /\ \E readOk \in BOOLEAN :
       IF ~readOk
       THEN RaiseOut("current_url")
       ELSE /\ pc' = IF DriftDetected(original_url, curUrl) THEN "nav2" ELSE "dispatch"
            /\ UNCHANGED <<driver, connected, raised, result>>
  /\ UNCHANGED <<inputs, batch, urls, creds, curUrl, loginCalls, navs,
                 step, success, outcome, iwpRet, loopv, touched, log>>

\* `if like: ...  if comment: ...  if share: ...  return success`
iwp_dispatch ==
  /\ pc = "dispatch"
  /\ IF step > Len(ActionOrder)
     THEN /\ iwpRet' = B2S(success) /\ pc' = "iwp_ret"
          /\ UNCHANGED <<step, active>>
     ELSE IF req[ActionOrder[step]]
     THEN /\ active' = ActionOrder[step] /\ pc' = "enter"
          /\ UNCHANGED <<step, iwpRet>>
     ELSE /\ step' = step + 1 /\ pc' = "dispatch"
          /\ UNCHANGED <<active, iwpRet>>
  /\ UNCHANGED <<inputs, batch, urls, session, success, outcome, raised, result,
                 ci, chosen, passedBefore, skippedPass, waits, clicks, held, shots,
                 restyled, post_found, opened,
                 staleUse, fault, shareButton, shareClicked, commentText, ret, touched, log>>

\* an aggregate that keeps only the last action's result
AggregateLast(s, r) == r

\* `if not like_success: success = False` (and the same for comment and share)
Aggregate(s, r) == s /\ r

\* the action method returned to interact_with_post, or raised through it
iwp_after_action ==
  /\ pc = "ret"
  /\ outcome' = [outcome EXCEPT ![active] = ret]
  /\ IF ret = "raised"
     THEN /\ RaiseOut(raised)
          /\ UNCHANGED <<step, success>>
     ELSE /\ success' = Aggregate(success, ret = "true")
          /\ step' = step + 1
          /\ pc' = "dispatch"
          /\ UNCHANGED <<driver, connected, raised, result>>
  /\ LoopReset
  /\ UNCHANGED <<inputs, batch, urls, creds, curUrl, loginCalls, navs,
                 iwpRet, touched, log>>

\* interact_with_post returned; run_facebook_bot closes the bot and returns
iwp_return ==
  /\ pc = "iwp_ret"
  /\ result' = iwpRet
  /\ driver' = IF entry = "iwp" THEN driver ELSE Closed(driver)
  /\ connected' = IF entry = "iwp" THEN connected
                  ELSE ConnectedAfterClose(connected)
  /\ pc' = "done"
  /\ UNCHANGED <<inputs, batch, urls, creds, curUrl, loginCalls, navs,
                 step, success, outcome, raised, iwpRet, loopv, touched, log>>


\* ---------------------------------------------------------- the page
\* What is_displayed() and is_enabled() do for one element: "vis" both True,
\* "hid" one of them False, "stale" one of them raises.
ElemKinds == {"vis", "hid", "stale"}
ElemLists == UNION { [1..n -> ElemKinds] : n \in 0..MaxElems }

\* Where an element that a document-wide query returned lies: "target" inside
\* the region that holds the post identifier of the target URL, "other" outside
\* that region, "absent" when the page has no region holding the identifier
\* (always so when the URL has no identifier).
Regions(url) ==
  IF ExtractPostId(url) = "" THEN {"absent"} ELSE {"target", "other", "absent"}

\* What find_elements does for one locator: it raises, or returns elements.
QueryOutcomes ==
  {[threw |-> TRUE, elems |-> << >>]}
    \cup {[threw |-> FALSE, elems |-> l] : l \in ElemLists}

\* is_element_visible: displayed and enabled; an exception counts as not visible
is_element_visible(kind) == kind = "vis"

\* a scan that keeps the last visible element instead of the first
LastVisible(l) ==
  IF \E i \in 1..Len(l) : is_element_visible(l[i])
  THEN CHOOSE i \in 1..Len(l) :
         /\ is_element_visible(l[i])
         /\ \A j \in (i + 1)..Len(l) : ~is_element_visible(l[j])
  ELSE 0

\* `for button in like_buttons: if self.is_element_visible(button): ...`:
\* the index of the first element that passes, 0 when none does
FirstVisible(l) ==
  IF \E i \in 1..Len(l) : is_element_visible(l[i])
  THEN CHOOSE i \in 1..Len(l) :
         /\ is_element_visible(l[i])
         /\ \A j \in 1..(i - 1) : ~is_element_visible(l[j])
  ELSE 0

LikePaths(url) == IF IsMobile(url) THEN LikePathsMobile ELSE LikePathsDesktop
CommentInputs(url) == IF IsMobile(url) THEN MobileTextareas ELSE CommentSelectors
ShareSelectors(url) ==
  IF IsMobile(url) THEN ShareSelectorsMobile ELSE ShareSelectorsDesktop

\* a log file opened with mode "w": every record replaces the content
save_activity_log_rewrites(l, action, status) ==
  <<[action |-> action, status |-> status, post_url |-> original_url]>>

\* save_activity_log(action, post_url, status); every caller passes the
\* post_url it was called with, which is interact_with_post's original_url
save_activity_log(l, action, status) ==
  Append(l, [action |-> action, status |-> status, post_url |-> original_url])

\* a locator loop that gives up when a query raises
NextCandidateStops(i, n, q) ==
  IF q.threw THEN [pc |-> "alt", ci |-> i]
  ELSE IF i < n THEN [pc |-> "cand", ci |-> i + 1] ELSE [pc |-> "alt", ci |-> i]

\* a locator loop that starts over after its last candidate
NextCandidateRestarts(i, n, q) ==
  IF i < n THEN [pc |-> "cand", ci |-> i + 1] ELSE [pc |-> "cand", ci |-> 1]

\* `except: continue` and the end of `for xpath in like_paths:`: the next
\* candidate, or the alternative method after the last one
NextCandidate(i, n, q) ==
  IF i < n THEN [pc |-> "cand", ci |-> i + 1] ELSE [pc |-> "alt", ci |-> i]

\* a comment flow that presses Enter whether or not a submit control was clicked
PressEnterAlways(button_clicked) == TRUE

\* `if not button_clicked: textarea.send_keys(Keys.ENTER)`
PressEnter(button_clicked) == ~button_clicked

\* The techniques by which the locator loop of action a writes the comment
\* into the element it acts on, in order: the desktop comment flow sets
\* textContent by script and then types the same text with send_keys, the
\* mobile flow types it once, like writes nothing.
Injections(a, url) ==
  IF a = "comment" /\ ~IsMobile(url) THEN <<"textContent", "send_keys">>
  ELSE IF a = "comment" THEN <<"send_keys">>
  ELSE << >>

\* the alternative method types the comment once
AlternativeInjections(a) == IF a = "comment" THEN <<"send_keys">> ELSE << >>

\* post_buttons of the mobile comment flow: the locators of the submit control
PostButtons == 5

\* How the locator loop of action a submits what it typed: the mobile comment
\* flow goes through all of post_buttons and clicks the first visible match of
\* each locator (`break` leaves only the loop over one locator's matches), and
\* presses Enter when none was clicked; the desktop comment flow always
\* presses Enter; like submits nothing. submits counts the clicks: 0, 1, or
\* 2 for two or more.
SubmitClicks == 0..(IF PostButtons > 2 THEN 2 ELSE PostButtons)

SubmitOutcomes(a, url) ==
  IF a = "comment" /\ IsMobile(url)
  THEN {[submit |-> k > 0, submits |-> k, enter |-> PressEnter(k > 0)] :
          k \in SubmitClicks}
  ELSE IF a = "comment" THEN {[submit |-> FALSE, submits |-> 0, enter |-> TRUE]}
  ELSE {[submit |-> FALSE, submits |-> 0, enter |-> FALSE]}

\* Whether the page was replaced while the text was submitted: the click on a
\* submit control posts the form and may load a new page.
Reloads(sub) == IF sub.submit THEN BOOLEAN ELSE {FALSE}

\* One iteration of the locator loop of like_post_in_current_view and of the
\* comment-input loop of comment_post_in_current_view, for action a with n
\* candidates: query, take the first visible element, act on it.
candidate_loop(a, n) ==
  /\ pc = "cand" /\ active = a
  /\ \E q \in QueryOutcomes :
       LET fv == FirstVisible(q.elems)
           nxt == NextCandidate(ci, n, q)
           passes == \E i \in 1..Len(q.elems) : q.elems[i] = "vis"
       IN
       /\ fault' = (q.threw \/ \E i \in 1..Len(q.elems) : q.elems[i] = "stale")
       /\ skippedPass' = (skippedPass \/ (passes /\ fv = 0))
       /\ held' = (held \/ q.elems # << >>)
       /\ IF fv = 0
          THEN /\ pc' = nxt.pc /\ ci' = nxt.ci
               /\ passedBefore' = (passedBefore \/ passes)
               /\ UNCHANGED <<chosen, ret, touched, log, clicks, staleUse>>
          ELSE /\ touched' = touched \cup {a}
               /\ clicks' = 1
               /\ \E actOk \in BOOLEAN :
                    IF actOk
                    THEN /\ \E reg \in Regions(original_url),
                               sub \in SubmitOutcomes(a, curUrl) :
                            \E reload \in Reloads(sub) :
                              /\ chosen' = [cand |-> ci, elem |-> fv,
                                            kind |-> q.elems[fv],
                                            earlier |-> \E j \in 1..(fv - 1) :
                                                          q.elems[j] = "vis",
                                            region |-> reg,
                                            submit |-> sub.submit,
                                            submits |-> sub.submits,
                                            injected |-> Injections(a, curUrl),
                                            enter |-> sub.enter]
                              \* the click on a submit control may reload the
                              \* page; an Enter that follows goes to the handle
                              \* obtained before it
                              /\ staleUse' = (staleUse \/ (sub.submit /\ reload
                                                            /\ sub.enter))
                         /\ passedBefore' = passedBefore
                         /\ log' = save_activity_log(log, a, "success")
                         /\ ret' = "true"
                         /\ pc' = "ret" /\ ci' = ci
                    ELSE /\ pc' = nxt.pc /\ ci' = nxt.ci
                         /\ passedBefore' = TRUE
                         /\ UNCHANGED <<chosen, ret, log, staleUse>>
  /\ opened' = 0
  /\ UNCHANGED <<inputs, batch, urls, session, orch, active, shareButton,
                 shareClicked, commentText, waits, shots, restyled, post_found>>

\* the capture comment_post_in_current_view asks for when every locator and
\* the alternative method found nothing to type into
FailureCaptures == {"comment_failure"}

\* The alternative method after the locator loop: scan the buttons (the
\* editable elements) and act on the first usable one; no record on failure.
alternative_method_shot(a, n, shotOk) ==
  /\ pc = "alt" /\ active = a
  /\ \E how \in {"acted", "nomatch", "fault"}, reg \in Regions(original_url) :
       /\ held' = (held \/ how = "acted")
       /\ IF how = "acted"
          THEN /\ touched' = touched \cup {a}
               /\ clicks' = 1
               /\ chosen' = [cand |-> n + 1, elem |-> 1, kind |-> "vis",
                             earlier |-> FALSE, region |-> reg,
                             submit |-> FALSE, submits |-> 0,
                             enter |-> (a = "comment"),
                             injected |-> AlternativeInjections(a)]
               /\ log' = save_activity_log(log, a, "success")
               /\ ret' = "true"
               /\ shots' = shots
          ELSE /\ ret' = "false"
               /\ shots' = IF a = "comment" THEN shots \cup FailureCaptures ELSE shots
               /\ log' = IF a = "comment" /\ CaptureRaises(shotOk)
                         THEN save_activity_log(log, a, "error") ELSE log
               /\ UNCHANGED <<touched, chosen, clicks>>
  /\ pc' = "ret"
  /\ UNCHANGED <<inputs, batch, urls, session, orch, active, ci, passedBefore,
                 skippedPass, waits, fault, shareButton, shareClicked, commentText, staleUse,
                 restyled, post_found, opened>>

\* -------------------------------------------------- like_post_in_current_view
\* the session guard and the steps before the locator loop
like_post_in_current_view_shot(shotOk) ==
  /\ pc = "enter" /\ active = "like"
  /\ \E scn \in GuardScenarios, preludeOk \in BOOLEAN :
       LET g == EnsureSession(scn) IN
         /\ SessionAfter(g)
         /\ shots' = IF g.ret /\ preludeOk THEN {"before_like"} ELSE {}
         /\ restyled' = FALSE
         /\ post_found' = "none"
         /\ opened' = 0
         /\ IF ~g.ret
            THEN ret' = "false" /\ pc' = "ret" /\ ci' = ci /\ log' = log
            ELSE IF ~preludeOk \/ CaptureRaises(shotOk)
            THEN /\ ret' = "false" /\ pc' = "ret" /\ ci' = ci
                 /\ log' = save_activity_log(log, "like", "error")
            ELSE ret' = ret /\ pc' = "cand" /\ ci' = 1 /\ log' = log
         /\ held' = (g.ret /\ preludeOk)
  /\ UNCHANGED <<inputs, batch, urls, creds, orch, active, chosen, passedBefore, skippedPass,
                 waits, clicks, staleUse, fault, shareButton, shareClicked, commentText,
                 touched>>

like_post_in_current_view ==
  \E shotOk \in BOOLEAN : like_post_in_current_view_shot(shotOk)

like_candidate == candidate_loop("like", LikePaths(curUrl))

like_alternative ==
  \E shotOk \in BOOLEAN : alternative_method_shot("like", LikePaths(curUrl), shotOk)

\* ----------------------------------------------- comment_post_in_current_view
\* the session guard, the choice of the text and the steps before the loops
comment_post_in_current_view_shot(shotOk) ==
  /\ pc = "enter" /\ active = "comment"
  /\ \E scn \in GuardScenarios, preludeOk \in BOOLEAN :
       LET g == EnsureSession(scn) IN
         /\ SessionAfter(g)
         /\ shots' = IF g.ret /\ HasGeneral(templates) /\ preludeOk
                     THEN {"before_comment"} ELSE {}
         /\ restyled' = FALSE
         /\ post_found' = "none"
         /\ opened' = 0
         /\ IF ~g.ret
            THEN /\ ret' = "false" /\ pc' = "ret"
                 /\ UNCHANGED <<commentText, raised, log>>
            ELSE IF ~HasGeneral(templates)
            THEN /\ ret' = "raised" /\ raised' = "templates" /\ pc' = "ret"
                 /\ UNCHANGED <<commentText, log>>
            ELSE /\ commentText' \in DefaultComments(templates)
                 /\ raised' = raised
                 /\ IF ~preludeOk \/ CaptureRaises(shotOk)
                    THEN /\ ret' = "false" /\ pc' = "ret"
                         /\ log' = save_activity_log(log, "comment", "error")
                    ELSE ret' = ret /\ pc' = "open" /\ log' = log
  /\ UNCHANGED <<inputs, batch, urls, creds, step, success, outcome, iwpRet, result,
                 active, ci, chosen, passedBefore, skippedPass, waits, clicks,
                 held, staleUse, fault,
                 shareButton, shareClicked, touched>>

comment_post_in_current_view ==
  \E shotOk \in BOOLEAN : comment_post_in_current_view_shot(shotOk)

\* mobile_comment_buttons and comment_button_selectors: the locators of the
\* control that opens the comment input
MobileCommentButtons == 5
CommentButtonSelectors == 3
CommentButtons(url) ==
  IF IsMobile(url) THEN MobileCommentButtons ELSE CommentButtonSelectors

\* how many comment-opening controls the loop can click: 0, 1, or 2 for two or
\* more
OpenClicks(url) == 0..(IF CommentButtons(url) > 2 THEN 2 ELSE CommentButtons(url))

\* the loop over the comment-button locators: the first visible match of
\* every locator is clicked (`break` leaves only the loop over one locator's
\* matches)
comment_open ==
  /\ pc = "open" /\ active = "comment"
  /\ \E k \in OpenClicks(curUrl) :
       /\ touched' = IF k > 0 THEN touched \cup {"comment"} ELSE touched
       /\ opened' = k
       /\ held' = TRUE
  /\ pc' = "cand" /\ ci' = 1
  /\ UNCHANGED <<inputs, batch, urls, session, orch, active, chosen, passedBefore, skippedPass,
                 waits, clicks, staleUse, fault, shareButton, shareClicked, commentText, ret,
                 log, shots, restyled, post_found>>

comment_candidate == candidate_loop("comment", CommentInputs(curUrl))

comment_alternative_shot(shotOk) ==
  alternative_method_shot("comment", CommentInputs(curUrl), shotOk)

comment_alternative == \E shotOk \in BOOLEAN : comment_alternative_shot(shotOk)

\* ------------------------------------------------------------- share_post
\* the session guard and the conditional navigation to post_url
share_post ==
  /\ pc = "enter" /\ active = "share"
  /\ \E scn \in GuardScenarios, readOk \in BOOLEAN, navOk \in BOOLEAN,
        land \in Landings(original_url) :
       LET g == EnsureSession(scn) IN
         /\ driver' = g.driver
         /\ connected' = g.connected
         /\ loginCalls' = IF g.called THEN Append(loginCalls, LoginCall(g))
                          ELSE loginCalls
         /\ IF ~g.ret
            THEN /\ ret' = "false" /\ pc' = "ret" /\ ci' = ci /\ log' = log
                 /\ curUrl' = g.url
                 /\ navs' = IF g.navigated THEN Append(navs, "login") ELSE navs
                 /\ requested' = requested
            ELSE IF ~readOk \/ g.driver # "live"
            THEN /\ ret' = "false" /\ pc' = "ret" /\ ci' = ci
                 /\ log' = save_activity_log(log, "share", "error")
                 /\ curUrl' = g.url
                 /\ navs' = IF g.navigated THEN Append(navs, "login") ELSE navs
                 /\ requested' = requested
            ELSE IF Contains(g.url, "facebook.com")
            THEN /\ ret' = ret /\ pc' = "cand" /\ ci' = 1 /\ log' = log
                 /\ curUrl' = g.url
                 /\ navs' = IF g.navigated THEN Append(navs, "login") ELSE navs
                 /\ requested' = requested
            ELSE /\ requested' = requested \cup {original_url}
                 /\ navs' = Append(IF g.navigated THEN Append(navs, "login") ELSE navs,
                                   "share")
                 /\ IF navOk
                    THEN /\ curUrl' = land
                         /\ ret' = ret /\ pc' = "cand" /\ ci' = 1 /\ log' = log
                    ELSE /\ curUrl' = g.url
                         /\ ret' = "false" /\ pc' = "ret" /\ ci' = ci
                         /\ log' = save_activity_log(log, "share", "error")
  /\ UNCHANGED <<inputs, batch, original_url, creds, orch, active, chosen,
                 passedBefore, skippedPass, waits, clicks, held, staleUse, fault,
                 shareButton, shareClicked, commentText, touched>>
  /\ shots' = {}
  /\ restyled' = FALSE
  /\ post_found' = "none"
  /\ opened' = 0

\* one iteration of `for selector in share_selectors:`: wait for a clickable
\* element, scroll to it and click it
share_candidate ==
  /\ pc = "cand" /\ active = "share"
  /\ \E found \in BOOLEAN, actOk \in BOOLEAN :
       LET last == ci >= ShareSelectors(curUrl)
           button == shareButton \/ found
       IN
       /\ fault' = ~found
       /\ shareButton' = button
       /\ shareClicked' = (found /\ actOk)
       /\ touched' = IF found THEN touched \cup {"share"} ELSE touched
       /\ clicks' = IF found THEN 1 ELSE clicks
       /\ held' = (held \/ found)
       /\ IF found /\ actOk
          THEN pc' = "sharenow" /\ ci' = 1 /\ ret' = ret /\ waits' = 0
          ELSE IF ~last
          THEN pc' = "cand" /\ ci' = ci + 1 /\ ret' = ret /\ waits' = waits + 1
          ELSE IF button
          THEN pc' = "sharenow" /\ ci' = 1 /\ ret' = ret /\ waits' = 0
          ELSE pc' = "ret" /\ ci' = ci /\ ret' = "false" /\ waits' = waits + 1
  /\ UNCHANGED <<inputs, batch, urls, session, orch, active, chosen,
                 passedBefore, skippedPass, commentText, log, staleUse, shots,
                 restyled, post_found, opened>>

\* one iteration of `for selector in share_now_selectors:`
share_now_candidate ==
  /\ pc = "sharenow" /\ active = "share"
  /\ \E found \in BOOLEAN, actOk \in BOOLEAN :
       /\ fault' = ~found
       /\ touched' = IF found THEN touched \cup {"share"} ELSE touched
       /\ clicks' = IF found THEN 1 ELSE clicks
       /\ waits' = waits + 1
       /\ held' = (held \/ found)
       /\ IF found /\ actOk
          THEN /\ log' = save_activity_log(log, "share", "success")
               /\ ret' = "true" /\ pc' = "ret" /\ ci' = ci
          ELSE IF ci < ShareNowSelectors
          THEN pc' = "sharenow" /\ ci' = ci + 1 /\ ret' = ret /\ log' = log
          ELSE pc' = "ret" /\ ci' = ci /\ ret' = "false" /\ log' = log
  /\ UNCHANGED <<inputs, batch, urls, session, orch, active, chosen,
                 passedBefore, skippedPass, shareButton, shareClicked, commentText, staleUse,
                 shots, restyled, post_found, opened>>

\* ------------------------------------------------------------------ system
Next ==
  \/ cli_interact
  \/ launcher_main
  \/ call_run_facebook_bot
  \/ call_interact_with_post
  \/ run_facebook_bot
  \/ interact_with_post
  \/ iwp_navigate
  \/ find_specific_post
  \/ iwp_drift_check
  \/ iwp_dispatch
  \/ iwp_after_action
  \/ iwp_return
  \/ like_post_in_current_view
  \/ like_candidate
  \/ like_alternative
  \/ comment_post_in_current_view
  \/ comment_open
  \/ comment_candidate
  \/ comment_alternative
  \/ share_post
  \/ share_candidate
  \/ share_now_candidate

Spec == Init /\ [][Next]_vars

\* The program is sequential and every driver command returns (a value, an
\* error or a timeout), so a run that can take a step takes one.
LiveSpec == Spec /\ WF_vars(Next)

\* ------------------------------------------------------------- batch mode
\* facebook_cli.py batch: batch_process reads the file and calls run_bot for
\* every entry.  What interact_with_post does inside one run is the machine
\* above; here a run is its login and the boolean it hands back.
MaxLines == 3

\* a line of the file that is empty after strip()
EmptyLine == <<"">>

BatchLines == {UrlDesktopPost, UrlForeign, EmptyLine}

RECURSIVE LineSeqs(_)
LineSeqs(n) ==
  IF n = 0 THEN {<< >>}
  ELSE LET shorter == LineSeqs(n - 1) IN
       shorter \cup {Append(l, u) : l \in {x \in shorter : Len(x) = n - 1},
                                    u \in BatchLines}

BatchFiles == {NoFile} \cup {[exists |-> TRUE, lines |-> l] : l \in LineSeqs(MaxLines)}

\* urls = [line.strip() for line in f if line.strip()]
NonEmptyLines(lines) == SelectSeq(lines, LAMBDA l : l # EmptyLine)

Urls == NonEmptyLines(file.lines)

\* a loop that gives up at the first entry that failed
AfterLineStops(i, n, ok) == IF ok THEN i + 1 ELSE n

\* the for loop of batch_process: neither `continue` nor a failed run leaves it
AfterLine(i, n, ok) == i + 1

\* a delay after every run, the last one included
DelayAfterAlways(i, n) == TRUE

\* `if i < len(urls): time.sleep(args.delay)`, i counting from 1
DelayAfter(i, n) == i < n

BatchInit ==
  /\ entry = "batch"
  /\ cfg \in Configs
  /\ target = UrlBlank
  /\ req = DefaultFlags
  /\ templates = [general |-> <<TextAccent, TextAscii, TextAscii2>>]
  /\ file \in BatchFiles
  /\ bi = 0
  /\ successful = 0
  /\ failed = 0
  /\ processed = << >>
  /\ pc = "start"
  /\ creds = NoCredentials
  /\ driver = "none"
  /\ connected = FALSE
  /\ curUrl = UrlBlank
  /\ loginCalls = << >>
  /\ navs = << >>
  /\ step = 1
  /\ success = TRUE
  /\ outcome = [a \in Actions |-> "none"]
  /\ active = "none"
  /\ ci = 0
  /\ chosen = NoChoice
  /\ passedBefore = FALSE
  /\ skippedPass = FALSE
  /\ fault = FALSE
  /\ shareButton = FALSE
  /\ shareClicked = FALSE
  /\ commentText = << >>
  /\ ret = "none"
  /\ waits = 0
  /\ clicks = 0
  /\ held = FALSE
  /\ shots = {}
  /\ restyled = FALSE
  /\ post_found = "none"
  /\ opened = 0
  /\ original_url = << >>
  /\ requested = {}
  /\ staleUse = FALSE
  /\ touched = {}
  /\ log = << >>
  /\ raised = "none"
  /\ iwpRet = "none"
  /\ result = "none"

\* the tally and the delay after run_bot returned `ok` for entry bi + 1
LineDone(started, ok, exit) ==
  /\ successful' = IF ok THEN successful + 1 ELSE successful
  /\ failed' = IF ok THEN failed ELSE failed + 1
  /\ processed' = Append(processed, [valid |-> TRUE, started |-> started, ok |-> ok,
                                     slept |-> DelayAfter(bi + 1, Len(Urls)),
                                     exit |-> exit])
  /\ bi' = AfterLine(bi, Len(Urls), ok)
  /\ pc' = "batch"

\* batch_process up to its loop: a missing file ends it with False
batch_process ==
  /\ pc = "start" /\ entry = "batch"
  /\ IF file.exists
     THEN pc' = "batch" /\ result' = result
     ELSE pc' = "done" /\ result' = "false"
  /\ UNCHANGED <<inputs, batch, urls, session, step, success, outcome, raised, iwpRet,
                 loopv, touched, log>>

\* one turn of the loop up to the call of run_bot: an entry that fails the
\* domain test is counted as failed and skipped
batch_line ==
  /\ pc = "batch" /\ bi < Len(Urls)
  /\ LET url == Urls[bi + 1] IN
       IF ~IsFacebookLink(url)
       THEN /\ failed' = failed + 1
            /\ processed' = Append(processed, [valid |-> FALSE, started |-> FALSE,
                                               ok |-> FALSE, slept |-> FALSE,
                                               exit |-> "invalid"])
            /\ bi' = AfterLine(bi, Len(Urls), FALSE)
            /\ UNCHANGED <<pc, target, successful>>
       ELSE /\ pc' = "run_bot"
            /\ target' = url
            /\ UNCHANGED <<bi, successful, failed, processed>>
  /\ UNCHANGED <<entry, cfg, req, templates, urls, file, session, orch, loopv,
                 touched, log>>

\* run_bot(post_url, config_file) up to the call of run_facebook_bot, which
\* builds a new FacebookBotSelenium
batch_run_bot ==
  /\ pc = "run_bot"
  /\ LET c == LoadConfig(cfg) IN
       IF ~IsFacebookLink(target) \/ ~c.ok
       THEN /\ LineDone(FALSE, FALSE, "config")
            /\ UNCHANGED <<creds, driver, connected>>
       ELSE /\ pc' = "batch_rfb"
            /\ creds' = c
            /\ driver' = "none"
            /\ connected' = FALSE
            /\ UNCHANGED <<bi, successful, failed, processed>>
  /\ UNCHANGED <<inputs, urls, file, curUrl, loginCalls, navs, orch, loopv, touched, log>>

\* run_facebook_bot inside a batch: bot.login(), and the abort when it fails
batch_run_facebook_bot ==
  /\ pc = "batch_rfb"
  /\ \E scn \in LoginScenarios :
       LET r == login(scn, driver, curUrl) IN
         /\ loginCalls' = Append(loginCalls, LoginCall(r))
         /\ connected' = ConnectedAfterLogin(connected, r.ret)
         /\ curUrl' = r.url
         /\ navs' = IF r.navigated THEN Append(navs, "login") ELSE navs
         /\ IF LoginFailed(r.ret)
            THEN /\ driver' = Closed(r.driver)
                 /\ LineDone(TRUE, FALSE, "login")
            ELSE /\ driver' = r.driver
                 /\ pc' = "batch_iwp"
                 /\ UNCHANGED <<bi, successful, failed, processed>>
  /\ UNCHANGED <<inputs, urls, file, creds, orch, loopv, touched, log>>

\* the rest of run_facebook_bot: interact_with_post returns a boolean or
\* raises (which run_facebook_bot turns into False), the bot is closed, and
\* run_bot hands the boolean to batch_process
batch_interact ==
  /\ pc = "batch_iwp"
  /\ \E out \in {"true", "false", "raised"} :
       /\ driver' = Closed(driver)
       /\ LineDone(TRUE, out = "true", out)
  /\ UNCHANGED <<inputs, urls, file, creds, connected, curUrl, loginCalls, navs, orch,
                 loopv, touched, log>>

\* the loop is through: `return failed == 0`
batch_return ==
  /\ pc = "batch" /\ bi >= Len(Urls)
  /\ result' = B2S(failed = 0)
  /\ pc' = "done"
  /\ UNCHANGED <<inputs, batch, urls, session, step, success, outcome, raised, iwpRet,
                 loopv, touched, log>>

BatchNext ==
  \/ batch_process
  \/ batch_line
  \/ batch_run_bot
  \/ batch_run_facebook_bot
  \/ batch_interact
  \/ batch_return

BatchSpec == BatchInit /\ [][BatchNext]_vars


\* ------------------------------------------------------------------ claims
\* the number of driver.get calls whose origin is in `origins`
NavCount(origins) == Cardinality({i \in 1..Len(navs) : navs[i] \in origins})

\* the records of the activity log that belong to action a
RecordsOf(a) == {i \in 1..Len(log) : log[i].action = a}

\* the order of the actions the specification states
ClaimedOrder == <<"like", "comment", "share">>
Rank(a) == CHOOSE i \in 1..3 : ClaimedOrder[i] = a

\* some login() call returned True
SomeLoginSucceeded == \E i \in 1..Len(loginCalls) : loginCalls[i].ret

\* C1: no like, comment or share interaction (a click or typing on the page,
\* a locator loop about to act, an activity record) exists in a state where
\* `connected` is False, and each is preceded by a login() that returned True.
C1_InteractionOnlyWhenConnected ==
  (touched # {} \/ log # << >> \/ pc \in {"open", "cand", "alt", "sharenow"})
    => (connected /\ SomeLoginSucceeded)

C1_Witness ==
  /\ entry = "iwp" /\ "like" \in touched /\ "comment" \in touched
  /\ Len(log) = 2 /\ connected

\* C2: once interact_with_post has run the action stage and returned, its
\* result is True exactly when every requested action returned True (so it is
\* True when nothing was requested, and unrequested actions do not count).
C2_ResultIsConjunction ==
  (iwpRet # "none" /\ step > 3)
    => ((iwpRet = "true") <=> (\A a \in Actions : req[a] => outcome[a] = "true"))

C2_Witness ==
  /\ iwpRet = "false" /\ step > 3
  /\ req.like /\ req.comment /\ ~req.share
  /\ outcome.like = "true" /\ outcome.comment = "false"

\* C3 (as claimed): when a requested action fails, every later requested action
\* of the same run is still attempted.
C3_FailureNeverStopsLaterActions ==
  pc = "done" =>
    \A i \in 1..3, j \in 1..3 :
      (i < j /\ req[ClaimedOrder[i]] /\ req[ClaimedOrder[j]]
         /\ outcome[ClaimedOrder[i]] \in {"false", "raised"})
        => outcome[ClaimedOrder[j]] # "none"

\* C4 (as claimed): every requested action that was attempted and returned left
\* exactly one record: a success record if it returned True, a failure record
\* if it returned False.
C4_OneRecordPerAttemptedAction ==
  \A a \in Actions :
    (outcome[a] \in {"true", "false"}) =>
      /\ Cardinality(RecordsOf(a)) = 1
      /\ \A i \in RecordsOf(a) : (log[i].status = "success") <=> (outcome[a] = "true")

\* C5: when the login() that run_facebook_bot makes does not end authenticated,
\* run_facebook_bot returns False at once: no navigation to the target, no
\* action, no activity record, and `connected` stays False.
C5_FailFastOnLoginFailure ==
  (entry # "iwp" /\ loginCalls # << >> /\ ~loginCalls[1].ret) =>
    /\ pc = "done" /\ result = "false"
    /\ NavCount({"initial", "retry", "share"}) = 0
    /\ touched = {} /\ log = << >>
    /\ \A a \in Actions : outcome[a] = "none"
    /\ ~connected
    /\ Len(loginCalls) = 1

C5_Witness ==
  /\ entry = "launcher" /\ Len(loginCalls) = 1
  /\ loginCalls[1].why = "approvals"
  /\ result = "false" /\ driver = "closed"

\* the configuration is missing or unreadable, lists no account, or its first
\* account lacks username or password
ConfigUnusable(c) ==
  \/ ~c.readable
  \/ c.accounts = << >>
  \/ c.accounts[1].username = ""
  \/ c.accounts[1].password = ""

\* C6: with an unusable configuration the run of the CLI and of the launcher
\* ends in failure before a browser session exists or a navigation is issued,
\* with no credentials handed to a bot and no activity record.
C6_ConfigFailureAbortsBeforeBrowser ==
  (entry \in {"cli", "launcher"} /\ ConfigUnusable(cfg) /\ pc # "start") =>
    /\ pc = "done" /\ result = "false"
    /\ creds = NoCredentials
    /\ driver = "none" /\ loginCalls = << >> /\ navs = << >>
    /\ touched = {} /\ log = << >>

C6_Witness ==
  /\ entry = "launcher" /\ pc = "done" /\ result = "false"
  /\ cfg.readable /\ Len(cfg.accounts) = 1 /\ cfg.accounts[1].password = ""

\* the target holds a post identifier that the current URL lacks
IdentifierLost(url, current) ==
  \E i \in 1..Len(url) :
    /\ StartsWithPfbid(url[i])
    /\ \A j \in 1..(i - 1) : ~StartsWithPfbid(url[j])
    /\ \A k \in 1..Len(current) : url[i] \notin Needles(current[k])

\* C7 (as claimed): a run navigates the driver to the target URL at most twice.
C7_AtMostTwoTargetNavigations ==
  NavCount({"initial", "retry", "share"}) <= 2

\* C7 (amended): interact_with_post itself navigates to the target once, and
\* once more only as the drift retry, which is issued only when the target's
\* post identifier is absent from the current URL and is never repeated;
\* share_post adds at most one navigation, only when share is requested, so a
\* run navigates to the target at most three times.
C7_RetryAtMostOnce ==
  /\ NavCount({"initial"}) <= 1
  /\ NavCount({"retry"}) <= 1
  /\ NavCount({"share"}) <= (IF req.share THEN 1 ELSE 0)
  /\ NavCount({"initial", "retry", "share"}) <= 3
  /\ pc = "nav2" => (NavCount({"initial"}) = 1 /\ IdentifierLost(target, curUrl))
  /\ NavCount({"retry"}) = 1 => NavCount({"initial"}) = 1

C7_Witness ==
  /\ pc = "dispatch" /\ NavCount({"retry"}) = 1
  /\ IdentifierLost(target, curUrl)

\* the element came from one of the n listed candidates of the active action
FromCandidate == chosen.cand >= 1 /\ ret = "true" /\ active \in {"like", "comment"}

\* C8 (as claimed): the element like and comment act on is a visible and
\* enabled match of the first candidate that has one; no element of a later
\* candidate is chosen while an earlier candidate has a passing match.
C8_FirstPassingCandidateOnly ==
  FromCandidate =>
    /\ chosen.kind = "vis" /\ ~chosen.earlier
    /\ ~passedBefore

\* C8 (amended): the element like and comment succeed on is the first visible
\* and enabled match of its candidate, and every earlier candidate that had a
\* passing match was acted on first (its first passing match was scrolled to
\* and the action on it raised); none was passed over.
C8_FirstPassingUnlessActionRaised ==
  FromCandidate =>
    /\ chosen.kind = "vis" /\ ~chosen.earlier
    /\ ~skippedPass
    /\ passedBefore => active \in touched

C8_Witness ==
  /\ FromCandidate /\ active = "comment"
  /\ chosen.cand = 2 /\ chosen.elem = 2 /\ passedBefore

C10_FixedOrderNoInterleaving ==
  /\ \A a \in Actions, b \in Actions :
       (active = b /\ Rank(a) < Rank(b) /\ req[a]) => outcome[a] \in {"true", "false"}
  /\ \A a \in Actions, b \in Actions :
       (active = a /\ Rank(a) < Rank(b)) => (outcome[b] = "none" /\ b \notin touched)
  /\ \A i \in 1..Len(log), j \in 1..Len(log) :
       i < j => Rank(log[i].action) < Rank(log[j].action)

C10_Witness ==
  /\ pc = "done" /\ result = "true" /\ Len(log) = 3
  /\ \A i \in 1..3 : (log[i].action = ClaimedOrder[i] /\ log[i].status = "success")

\* C11: login() is executed at most once per run and its outcome is kept: after
\* a login that returned True no later step (interact_with_post, like, comment,
\* share) calls login again, and after one that returned False none re-attempts
\* it; the session flag is the outcome of that one call.
C11_LoginAtMostOncePerRun ==
  /\ Len(loginCalls) <= 1
  /\ loginCalls # << >> => (connected <=> loginCalls[1].ret)
  /\ loginCalls = << >> => ~connected

C11_Witness ==
  /\ entry = "rfb" /\ pc = "done" /\ Len(loginCalls) = 1
  /\ \A a \in Actions : outcome[a] \in {"true", "false"}

\* the authenticated-home shape of a URL: the platform's root, its home feed,
\* or the root with the chronological-feed query
HomeShape(url) ==
  \E i \in 1..(Len(url) - 1) :
    /\ url[i] \in {"www.facebook.com", "m.facebook.com"}
    /\ \/ url[i + 1] \in {"home", "home.php", "?sk=h_chr"}
       \/ url[i + 1] = "" /\ i + 1 = Len(url)

\* C12 (as claimed): right after a login() that returned True the browser is on
\* a URL of the authenticated-home shape; on any other URL (the login page, a
\* checkpoint) login() has returned False and `connected` is False.
C12_AuthenticatedOnlyOnHomeShape ==
  (pc \in {"iwp", "nav1"} /\ loginCalls # << >>) =>
     /\ loginCalls[Len(loginCalls)].ret => HomeShape(curUrl)
     /\ (loginCalls[Len(loginCalls)].why = "unverified") => ~HomeShape(curUrl)
     /\ connected <=> loginCalls[Len(loginCalls)].ret

\* C13 (as claimed): when the target URL holds a post identifier and the page
\* has a region holding that identifier, the element like and comment act on
\* lies inside that region.
C13_ActsInsideIdentifiedRegion ==
  (chosen # NoChoice /\ active \in {"like", "comment"}
     /\ ExtractPostId(target) # "" /\ chosen.region # "absent")
    => chosen.region = "target"

\* C14 (as claimed): while one locator list is resolved, the timed wait is
\* applied to at most one candidate, the first; a list whose N candidates all
\* fail costs one timed wait, not N.
C14_AtMostOneTimedWaitPerIntent ==
  /\ waits <= 1
  /\ (waits = 1 /\ pc \in {"cand", "sharenow"}) => ci <= 2

\* C15 (as claimed): when the click on a resolved element failed, the same
\* element was tried a second time (after a further scroll and settle) before
\* the loop went on to another candidate or to the alternative method; no
\* element is tried more than twice.
C15_RetrySameElementBeforeNextCandidate ==
  /\ clicks <= 2
  /\ (active \in {"like", "comment"} /\ pc \in {"cand", "alt"} /\ passedBefore)
       => clicks = 2

\* C16: in the mobile comment flow, once the text was typed, Enter is sent
\* exactly when no submit control was clicked, and in both cases the comment
\* is reported as a success (the method returns True and the last record is a
\* comment success).
C16_EnterIffNoSubmitControl ==
  (chosen # NoChoice /\ active = "comment" /\ IsMobile(curUrl)
     /\ chosen.cand <= MobileTextareas)
    => /\ chosen.enter <=> ~chosen.submit
       /\ ret = "true"
       /\ log # << >>
       /\ log[Len(log)].action = "comment" /\ log[Len(log)].status = "success"

C16_Witness ==
  /\ chosen # NoChoice /\ active = "comment" /\ IsMobile(curUrl)
  /\ chosen.cand = 2 /\ chosen.submit /\ ~chosen.enter /\ ret = "true"

\* C17: no element handle is used after the page it was obtained from was
\* replaced, and no handle is kept across a navigation: whenever
\* interact_with_post navigates, looks for the post, checks for drift or starts
\* an action (whose own navigation, in share_post, comes first), no handle of
\* an earlier step is in scope.
C17_NoHandleOutlivesItsPage ==
  /\ ~staleUse
  /\ pc \in {"nav1", "nav2", "find1", "find2", "drift", "dispatch", "enter",
            "iwp_ret", "done"} => ~held

C17_Witness ==
  /\ pc = "sharenow" /\ held /\ shareButton
  /\ NavCount({"initial"}) = 1 /\ NavCount({"retry"}) = 1
  /\ "comment" \in touched /\ IsMobile(curUrl)

\* ------------------------------------------------------- process exit status
\* facebook_cli.py main: sys.exit(0 if result else 1); an exception that
\* reaches main exits with 1
CliExitStatus(r) == IF r = "true" THEN 0 ELSE 1

\* run_facebook_bot.py, the __main__ block: main() is called and its result is
\* dropped, so the interpreter ends with status 0 whenever main returns; only
\* an exception that leaves main reaches sys.exit(1)
LauncherExitStatus(r) == IF r = "raised" THEN 1 ELSE 0

\* the exit status of the process once the entry point is through
ExitStatus == IF entry = "launcher" THEN LauncherExitStatus(result)
                                    ELSE CliExitStatus(result)

\* C18: for the command-line entry points the process exit status is zero if
\* and only if the processed target ended in full success, and non-zero
\* otherwise (configuration failure, login failure, any failed action).
C18_ExitStatusZeroIffFullSuccess ==
  (pc = "done" /\ entry \in {"cli", "launcher"}) =>
    ((ExitStatus = 0) <=> (result = "true"))

\* ---------------------------------------------------------------- batch mode
\* the entries of `urls` for which a browser session was started
StartedLines == {i \in 1..Len(processed) : processed[i].started}

FailedLines == {i \in 1..Len(processed) : ~processed[i].ok}

\* C19: in batch mode an entry that fails the platform-domain test starts no
\* bot run (no browser session, no login, no navigation), adds exactly one to
\* the failure count and does not end the batch; a failed run of a valid
\* entry does not end it either: every entry of the file is processed.
C19_BatchSkipsInvalidAndContinues ==
  /\ \A i \in 1..Len(processed) :
       ~IsFacebookLink(Urls[i]) => (~processed[i].valid /\ ~processed[i].started)
  /\ pc \in {"batch", "done"} =>
       /\ Len(loginCalls) = Cardinality(StartedLines)
       /\ Len(navs) <= Cardinality(StartedLines)
       /\ driver # "live"
       /\ Len(processed) = bi
  /\ failed = Cardinality(FailedLines)
  /\ (pc = "done" /\ file.exists) => Len(processed) = Len(Urls)

C19_Witness ==
  /\ pc = "done" /\ Len(processed) = 3
  /\ ~IsFacebookLink(Urls[1]) /\ ~processed[1].valid
  /\ processed[2].started /\ ~processed[2].ok
  /\ processed[3].started /\ processed[3].ok
  /\ failed = 2 /\ successful = 1 /\ Len(loginCalls) = 2

\* C20: for every entry point that takes a target URL, a target outside the
\* platform's domain gets no browser session, no login and no navigation.
C20_NoSessionForForeignTarget ==
  (entry \in {"cli", "launcher"} /\ ~IsFacebookLink(target)) =>
    (driver = "none" /\ loginCalls = << >> /\ navs = << >>)

C22_LogIsAppendOnly ==
  [][ \/ log' = log
      \/ /\ Len(log') = Len(log) + 1
         /\ SubSeq(log', 1, Len(log)) = log ]_vars

C22_Witness ==
  /\ pc = "done" /\ Len(log) = 3
  /\ log[1].action = "like" /\ log[2].action = "comment" /\ log[3].action = "share"
  /\ log[2].status = "error"

\* ------------------------------------------------------ diagnostic captures
\* C23: whenever a like, comment or share action ends in failure, a
\* screenshot capture was requested from the driver in that action's failure
\* handling, before the action returned.
C23_FailureRequestsCapture ==
  (pc = "ret" /\ ret = "false") => shots \cap FailureCaptures # {}

\* what a step decides: where the run goes on, what the method returns, the
\* activity log and the exception on its way out
Decided(p, r, l, x) == pc' = p /\ ret' = r /\ log' = l /\ raised' = x

Returns == {"none", "false", "raised"}

Causes == {"none", "capture", "templates"}

\* the log as it is, or with one more record of action a
NextLogs(a) == {log} \cup {save_activity_log(log, a, st) : st \in {"success", "error"}}

\* C24: a failing screenshot capture never changes the outcome of a run.  At
\* each of the four capture points (find_specific_post, before like, before
\* comment, comment failure) whatever the step can decide when the capture
\* throws it can decide when the capture succeeds, and the other way round.
C24_CaptureFailureChangesNothing ==
  /\ pc \in {"find1", "find2"} =>
       \A p \in {"drift", "dispatch", "done"}, x \in Causes :
         (ENABLED (find_specific_post_shot(FALSE) /\ Decided(p, ret, log, x)))
           <=> (ENABLED (find_specific_post_shot(TRUE) /\ Decided(p, ret, log, x)))
  /\ (pc = "enter" /\ active = "like") =>
       \A p \in {"cand", "ret"}, r \in Returns, l \in NextLogs("like") :
         (ENABLED (like_post_in_current_view_shot(FALSE) /\ Decided(p, r, l, raised)))
           <=> (ENABLED (like_post_in_current_view_shot(TRUE)
                           /\ Decided(p, r, l, raised)))
  /\ (pc = "enter" /\ active = "comment") =>
       \A p \in {"open", "ret"}, r \in Returns, l \in NextLogs("comment"), x \in Causes :
         (ENABLED (comment_post_in_current_view_shot(FALSE) /\ Decided(p, r, l, x)))
           <=> (ENABLED (comment_post_in_current_view_shot(TRUE)
                           /\ Decided(p, r, l, x)))
  /\ (pc = "alt" /\ active = "comment") =>
       \A r \in {"true", "false"}, l \in NextLogs("comment") :
         (ENABLED (comment_alternative_shot(FALSE) /\ Decided("ret", r, l, raised)))
           <=> (ENABLED (comment_alternative_shot(TRUE)
                           /\ Decided("ret", r, l, raised)))

C24_Witness ==
  /\ pc = "ret" /\ active = "comment" /\ ret = "false"
  /\ shots = {"before_comment", "comment_failure"}
  /\ outcome.like = "true" /\ Len(log) = 1
  /\ log[1].action = "like" /\ log[1].status = "success"

\* C25: when no comment text is supplied, the text the comment method picks
\* holds ASCII characters only: it is one of the `general` templates without a
\* character above code 127, or the fixed fallback text when every template
\* has such a character; a template with a non-ASCII character is never
\* picked.
C25_DefaultCommentIsAscii ==
  commentText # << >> =>
    /\ IsAsciiText(commentText)
    /\ \/ \E k \in 1..Len(templates.general) : commentText = templates.general[k]
       \/ /\ commentText = TextFallback
          /\ \A k \in 1..Len(templates.general) : ~IsAsciiText(templates.general[k])

C25_Witness ==
  /\ pc = "ret" /\ active = "comment" /\ ret = "true"
  /\ templates.general = <<TextAccent>> /\ commentText = TextFallback

\* C26: every navigation to the target that interact_with_post issues (the
\* first one and the drift retry) uses the target URL exactly as the caller
\* supplied it, mobile or desktop form untouched; the same URL is what every
\* action is called with, what share_post navigates to and what every
\* activity record holds.
C26_TargetUrlNeverRewritten ==
  /\ original_url \in {<< >>, target}
  /\ requested \subseteq {target}
  /\ \A i \in 1..Len(log) : log[i].post_url = target

C26_Witness ==
  /\ pc = "done" /\ target = UrlMobilePost /\ requested = {UrlMobilePost}
  /\ NavCount({"initial"}) = 1 /\ NavCount({"retry"}) = 1
  /\ Len(log) = 2 /\ log[1].post_url = UrlMobilePost /\ log[2].post_url = UrlMobilePost

\* ------------------------------------------------------------- termination
\* the stages of a run, in the order the code passes through them
StageRank ==
  [p \in {"start", "rfb", "iwp", "nav1", "find1", "drift", "nav2", "find2",
          "dispatch", "enter", "open", "cand", "alt", "sharenow", "ret",
          "iwp_ret", "done"} |->
     CASE p = "start" -> 0 [] p = "rfb" -> 1 [] p = "iwp" -> 2 [] p = "nav1" -> 3
       [] p = "find1" -> 4 [] p = "drift" -> 5 [] p = "nav2" -> 6 [] p = "find2" -> 7
       [] p = "dispatch" -> 8 [] p = "enter" -> 9 [] p = "open" -> 10
       [] p = "cand" -> 11 [] p = "alt" -> 12 [] p = "sharenow" -> 13
       [] p = "ret" -> 14 [] p = "iwp_ret" -> 15 [] p = "done" -> 16]

\* how far a run has come: the action it is at, the stage, the candidate
Progress == (step * 20 + StageRank[pc]) * 10 + ci

\* every step moves the run forward: no stage is entered twice (the drift
\* retry has stages of its own, entered at most once) and no candidate of a
\* locator loop is visited twice in one action
Linear == [][Progress' > Progress]_vars

C28_ResolutionIsReadOnly == ~restyled

\* C29: `connected` is written only by login: it starts False, becomes True
\* only in a step in which login() returned True, and no other operation
\* (like, comment, share, find_specific_post, interact_with_post,
\* save_activity_log, close) changes it, so it never goes from True back to
\* False during the life of a bot instance.
C29_ConnectedWrittenOnlyByLogin ==
  /\ ~connected
  /\ [][/\ connected => connected'
        /\ (~connected /\ connected')
             => /\ Len(loginCalls') = Len(loginCalls) + 1
                /\ loginCalls'[Len(loginCalls')].ret]_vars

\* a run of run_facebook_bot has logged in, finished and closed the bot, and
\* the flag is still set
C29_Witness ==
  /\ pc = "done" /\ entry = "rfb" /\ driver = "closed"
  /\ connected /\ log # << >>

\* C30: after drift was detected and the single re-navigation is done, the
\* run goes on to the requested actions whether or not the retry restored the
\* target (identifier still absent from the URL, or post still not located);
\* a failed post location without drift does not abort the run either; and
\* the value interact_with_post returns is determined by the outcomes of the
\* requested actions alone.
C30_RunProceedsAfterRetry ==
  [][/\ pc \in {"find1", "find2"}
          => pc' = IF pc = "find1" THEN "drift" ELSE "dispatch"
     /\ (pc = "drift" /\ pc' # "done")
          => pc' = IF DriftDetected(original_url, curUrl) THEN "nav2"
                   ELSE "dispatch"
     /\ (pc = "dispatch" /\ step <= Len(ActionOrder) /\ req[ActionOrder[step]])
          => (pc' = "enter" /\ active' = ActionOrder[step])
     /\ (pc = "dispatch" /\ pc' = "iwp_ret")
          => (iwpRet' = "true"
                <=> \A a \in Actions : req[a] => outcome[a] = "true")]_vars

\* the retry was made, the identifier is still absent from the URL and the
\* post was not located, and a requested action is being entered
C30_Witness ==
  /\ pc = "enter"
  /\ \E i \in DOMAIN navs : navs[i] = "retry"
  /\ DriftDetected(original_url, curUrl)
  /\ post_found = "false"

\* C31: in login() the submit control is activated only after the email field
\* and then the password field were resolved and filled; when either field or
\* the submit control cannot be resolved, submit is never activated and login
\* returns False; and a consent dialog that does not show never makes login
\* fail by itself.
C31_SubmitOnlyAfterBothFields ==
  /\ \A i \in DOMAIN loginCalls :
       LET c == loginCalls[i] IN
         /\ (\E k \in DOMAIN c.form : c.form[k] = "submit")
              => c.form = <<"email", "pass", "submit">>
         /\ c.why \in {"email", "pass", "button"}
              => (~c.ret /\ \A k \in DOMAIN c.form : c.form[k] # "submit")
         /\ c.ret => c.form = <<"email", "pass", "submit">>
         /\ c.why # "consent"
  /\ (pc \in {"rfb", "iwp"} /\ ~connected)
       => \A scn \in LoginScenarios :
            login([scn EXCEPT !.consent = FALSE], driver, curUrl)
              = login([scn EXCEPT !.consent = TRUE], driver, curUrl)

\* a login() stopped at the password field, with the email filled and nothing
\* submitted
C31_Witness ==
  \E i \in DOMAIN loginCalls :
    /\ loginCalls[i].why = "pass"
    /\ loginCalls[i].form = <<"email">>
    /\ ~connected

\* C32: share_post attempts the confirm ("share now") step only if a click on
\* a share control completed without error, and returns True only when both
\* the share click and the confirm click completed.
C32_ConfirmOnlyAfterShareClick ==
  /\ (pc = "sharenow" /\ active = "share") => shareClicked
  /\ (pc = "ret" /\ active = "share" /\ ret = "true") => shareClicked

\* C33: during one mobile comment action of comment_post_in_current_view at
\* most one submit control is clicked: after a click on a submit control no
\* further submit-control candidate is queried or clicked for that comment.
C33_AtMostOneSubmitClick ==
  (active = "comment" /\ chosen # NoChoice) => chosen.submits <= 1

\* C34: during one comment action of comment_post_in_current_view (mobile or
\* desktop) at most one comment-opening control is clicked: after the first
\* visible match of a comment-button candidate is clicked, no element of a
\* later comment-button candidate is clicked.
C34_AtMostOneOpeningClick == active = "comment" => opened <= 1

\* C35: in a comment action reported as success the comment text is injected
\* into the page exactly once before submission: the input that is submitted
\* holds one copy of the payload, with no second injection by another
\* technique.
C35_TextInjectedExactlyOnce ==
  (active = "comment" /\ ret = "true" /\ chosen # NoChoice)
    => Len(chosen.injected) = 1

\* C36: when share_post(post_url) (or comment_post(post_url)) is called on an
\* authenticated session, the page on which the action is performed is the
\* page of post_url: the driver has been navigated to post_url before any
\* control is resolved, whatever page the browser was on when the call
\* started.
C36_ShareOnPageOfPostUrl ==
  (active = "share" /\ pc \in {"cand", "sharenow"} /\ curUrl # original_url)
    => NavCount({"share"}) >= 1

\* the entries for which run_bot returned True
SucceededLines == {i \in 1..Len(processed) : processed[i].ok}

\* C37 as stated: the tally is exact after every processed line, the batch
\* result is True exactly when failed is 0, and the delay is applied only
\* between runs: a delay is followed by another run.
C37_DelayOnlyBetweenRuns ==
  /\ successful + failed = Len(processed)
  /\ (pc = "done" /\ file.exists) => (result = "true" <=> failed = 0)
  /\ \A i \in 1..Len(processed) :
       processed[i].slept
         => \E j \in (i + 1)..Len(Urls) : IsFacebookLink(Urls[j])

\* C37: in batch_process, after each processed line successful + failed is the
\* number of non-empty lines processed so far and each line has added one to
\* exactly one of the two counters; the batch result is True if and only if
\* failed is 0 at the end, so a file without non-empty lines yields True; and
\* the delay is applied after a run exactly when its line is not the last
\* non-empty line of the file, never after a skipped line and never after the
\* last line.
C37_TallyAndDelay ==
  /\ successful = Cardinality(SucceededLines)
  /\ failed = Cardinality(FailedLines)
  /\ successful + failed = Len(processed)
  /\ pc \in {"batch", "done"} => Len(processed) = bi
  /\ (pc = "done" /\ file.exists) => (result = "true" <=> failed = 0)
  /\ (pc = "done" /\ file.exists /\ Urls = << >>) => result = "true"
  /\ \A i \in 1..Len(processed) :
       processed[i].slept <=> (processed[i].valid /\ i < Len(Urls))

\* a batch of three lines is through: one run succeeded and was followed by a
\* delay, one line was skipped without a delay, the last run failed and was
\* not followed by a delay
C37_Witness ==
  /\ pc = "done" /\ Len(processed) = 3 /\ result = "false"
  /\ processed[1].ok /\ processed[1].slept
  /\ ~processed[2].valid /\ ~processed[2].slept
  /\ processed[3].started /\ ~processed[3].ok /\ ~processed[3].slept
  /\ successful = 1 /\ failed = 2

\* C38: no like, comment or share method raises to its caller on an
\* authenticated session: for every driver fault and every content of the
\* comment templates the method returns True or False, and an unexpected
\* error that ends the action leaves a record with status "error".
C38_ActionMethodsNeverRaise ==
  /\ pc = "ret" => ret \in {"true", "false"}
  /\ \A a \in Actions : outcome[a] # "raised"

====
